---- MODULE Spec2Model ----
(***************************************************************************)
(* A model of valhalla::meili::GridRangeQuery (grid_range_query.h): the    *)
(* uniform grid index over line segments.                                  *)
(*                                                                         *)
(* Numbers.  The source computes in `float`.  The model computes the same  *)
(* expressions exactly, over rationals <<n, d>> (d > 0, lowest terms), so  *)
(* every comparison, truncation and ceiling is the one the source makes on *)
(* the exact value; float rounding error is outside the model.             *)
(*                                                                         *)
(* A point is <<x, y>>, a line segment <<a, b>>, a bounding box a record   *)
(* [minx, miny, maxx, maxy].                                               *)
(***************************************************************************)
EXTENDS Integers, Sequences, FiniteSets, TLC

VARIABLES
  pc,             \* "new" | "failed" | "idle" | "walk" | "crashed"
  args,           \* the constructor's arguments [bbox, cell_width, cell_height]
  thrown,         \* the exception the last operation raised, or "none"
  bbox_, cell_width_, cell_height_, num_rows_, num_cols_, items_,
  edgeid, segment,            \* AddLineSegment's arguments
  start, end, current_point, i, j,   \* AddLineSegment's locals
  iters,          \* loop bodies executed by the current / last AddLineSegment
  appended,       \* the positions <<i, j>> its push_backs targeted, in order
  moved,          \* the last cell-to-cell move <<from, to>> of the walk, or <<>>
  calls,          \* AddLineSegment calls started so far
  lastOp,         \* the operation that produced this state
  range, results, \* Query's argument and return value
  coords,         \* GridCoordinates' argument and return value
  clip            \* InteriorLineSegment's argument, result and result on the result

vars == <<pc, args, thrown, bbox_, cell_width_, cell_height_, num_rows_,
          num_cols_, items_, edgeid, segment, start, end, current_point, i, j,
          iters, appended, moved, calls, lastOp, range, results, coords, clip>>

----------------------------------------------------------------------------
(* Exact arithmetic standing for the source's float expressions.           *)

RECURSIVE Gcd(_, _)
Gcd(a, b) == IF b = 0 THEN a ELSE Gcd(b, a % b)

Abs(n) == IF n < 0 THEN -n ELSE n

Reduce(n, d, g) == <<n \div g, d \div g>>

\* n/d in lowest terms with a positive denominator (d # 0).
Rat(n, d) ==
  IF d < 0 THEN Reduce(-n, -d, Gcd(Abs(n), -d)) ELSE Reduce(n, d, Gcd(Abs(n), d))

R(n) == <<n, 1>>
Half == <<1, 2>>

RAdd(p, q) == Rat(p[1] * q[2] + q[1] * p[2], p[2] * q[2])
RSub(p, q) == Rat(p[1] * q[2] - q[1] * p[2], p[2] * q[2])
RMul(p, q) == Rat(p[1] * q[1], p[2] * q[2])
RDiv(p, q) == Rat(p[1] * q[2], p[2] * q[1])
RLt(p, q) == p[1] * q[2] < q[1] * p[2]
RLe(p, q) == p[1] * q[2] <= q[1] * p[2]
RAbs(p) == <<Abs(p[1]), p[2]>>
RMin(p, q) == IF RLt(q, p) THEN q ELSE p

\* int(x): C++ float-to-int conversion, truncation toward zero.
RTrunc(p) == IF p[1] >= 0 THEN p[1] \div p[2] ELSE -((-p[1]) \div p[2])
\* floor(x), the mathematical floor.
RFloor(p) == p[1] \div p[2]
\* ceil(x) converted to int.
RCeil(p) == -((-p[1]) \div p[2])

----------------------------------------------------------------------------
(* The geometry collaborators (valhalla/midgard): Point2, AABB2,           *)
(* LineSegment2.                                                           *)

Box(x0, y0, x1, y1) == [minx |-> x0, miny |-> y0, maxx |-> x1, maxy |-> y1]

Width(box) == RSub(box.maxx, box.minx)
Height(box) == RSub(box.maxy, box.miny)

\* AABB2::Contains: the half-open rectangle [minx, maxx) x [miny, maxy).
Contains(box, p) ==
  /\ RLe(box.minx, p[1]) /\ RLe(box.miny, p[2])
  /\ RLt(p[1], box.maxx) /\ RLt(p[2], box.maxy)

RSquare(e) == RMul(e, e)

\* Point2::DistanceSquared: squared Euclidean distance.
DistanceSquared(p, q) ==
  RAdd(RSquare(RSub(p[1], q[1])), RSquare(RSub(p[2], q[2])))

\* The 2-D cross product u.x * v.y - u.y * v.x.
Cross(ux, uy, vx, vy) == RSub(RMul(ux, vy), RMul(uy, vx))

Miss == [hit |-> FALSE, point |-> <<R(0), R(0)>>]

\* The last step of Intersect: t and u must lie in [0, 1]; the point is
\* a + b * t.
IntersectAt(a, bx, by, t, u) ==
  IF RLt(t, R(0)) \/ RLt(R(1), t) \/ RLt(u, R(0)) \/ RLt(R(1), u)
  THEN Miss
  ELSE [hit |-> TRUE,
        point |-> <<RAdd(a[1], RMul(bx, t)), RAdd(a[2], RMul(by, t))>>]

\* dtb = dp.Dot(b), dpc = dp.Dot(c), bpc = bp.Dot(c), with dp and bp the
\* perpendiculars (-y, x) of d and b: parallel segments (dtb = 0) do not
\* intersect.
IntersectDots(a, bx, by, dtb, dpc, bpc) ==
  IF dtb[1] = 0 THEN Miss
  ELSE IntersectAt(a, bx, by, RDiv(dpc, dtb), RDiv(bpc, dtb))

\* b = b_ - a_, d = segment.b() - segment.a(), c = segment.a() - a_.
IntersectVectors(a, bx, by, ddx, ddy, cx, cy) ==
  IntersectDots(a, bx, by, Cross(ddx, ddy, bx, by), Cross(ddx, ddy, cx, cy),
                Cross(bx, by, cx, cy))

\* LineSegment2::Intersect(other, out): the single point where the two
\* segments cross, end points included; none for parallel segments.
\* Solves a + t*b = e + u*d for t, u in [0, 1].
Intersect(seg, edge) ==
  IntersectVectors(seg[1],
                   RSub(seg[2][1], seg[1][1]), RSub(seg[2][2], seg[1][2]),
                   RSub(edge[2][1], edge[1][1]), RSub(edge[2][2], edge[1][2]),
                   RSub(edge[1][1], seg[1][1]), RSub(edge[1][2], seg[1][2]))

----------------------------------------------------------------------------
(* GridRangeQuery: construction and the read-only helpers.                 *)

\* The constructor's four argument checks, in order; "none" when all pass.
CtorThrows(box, cw, ch) ==
  IF RLe(cw, R(0)) THEN "invalid cell width"
  ELSE IF RLe(ch, R(0)) THEN "invalid cell height"
  ELSE IF RLe(Width(box), R(0)) THEN "invalid bounding box width"
  ELSE IF RLe(Height(box), R(0)) THEN "invalid bounding box height"
  ELSE "none"

\* num_rows_ = ceil(bbox_width / cell_width_)
CtorNumRows(box, cw) == RCeil(RDiv(Width(box), cw))
\* num_cols_ = ceil(bbox_height / cell_height_)
CtorNumCols(box, ch) == RCeil(RDiv(Height(box), ch))

GridCoordinates(p) ==
  << RTrunc(RDiv(RSub(p[1], bbox_.minx), cell_width_)),
     RTrunc(RDiv(RSub(p[2], bbox_.miny), cell_height_)) >>

CellBoundingBox(ci, cj) ==
  Box(RAdd(bbox_.minx, RMul(R(ci), cell_width_)),
      RAdd(bbox_.miny, RMul(R(cj), cell_height_)),
      RAdd(bbox_.minx, RMul(R(ci + 1), cell_width_)),
      RAdd(bbox_.miny, RMul(R(cj + 1), cell_height_)))

CellCenter(ci, cj) ==
  <<RAdd(bbox_.minx, RMul(RAdd(R(ci), Half), cell_width_)),
    RAdd(bbox_.miny, RMul(RAdd(R(cj), Half), cell_height_))>>

\* The 0-based table index ItemsInCell(i, j) uses.
CellIndex(ci, cj) == ci + cj * num_cols_

\* Whether items_[idx] exists; an index outside is undefined behaviour.
InTable(idx) == 0 <= idx /\ idx < Len(items_)

\* ItemsInCell(i, j) read at an index inside the table.
ItemsInCell(ci, cj) == items_[CellIndex(ci, cj) + 1]

\* Return t such that p = a + t * (b - a)          (a # b)
Unlerp(a, b, p) ==
  IF RLt(RAbs(RSub(b[2], a[2])), RAbs(RSub(b[1], a[1])))
  THEN RDiv(RSub(p[1], a[1]), RSub(b[1], a[1]))
  ELSE RDiv(RSub(p[2], a[2]), RSub(b[2], a[2]))

\* The sides e1..e4 of a box with the direction to the cell across each.
BoxSides(box) ==
  << [edge |-> << <<box.minx, box.miny>>, <<box.maxx, box.miny>> >>, dx |-> 0, dy |-> -1],
     [edge |-> << <<box.maxx, box.miny>>, <<box.maxx, box.maxy>> >>, dx |-> 1, dy |-> 0],
     [edge |-> << <<box.maxx, box.maxy>>, <<box.minx, box.maxy>> >>, dx |-> 0, dy |-> 1],
     [edge |-> << <<box.minx, box.maxy>>, <<box.minx, box.miny>> >>, dx |-> -1, dy |-> 0] >>

\* intersects.push_back({intersect, dx, dy}) when the side is hit.
HitRecord(r, side) ==
  IF r.hit THEN <<[point |-> r.point, dx |-> side.dx, dy |-> side.dy]>> ELSE <<>>

RECURSIVE SidesHit(_, _, _)
SidesHit(sides, seg, n) ==
  IF n > Len(sides) THEN <<>>
  ELSE HitRecord(Intersect(seg, sides[n].edge), sides[n]) \o SidesHit(sides, seg, n + 1)

\* The intersections of seg with the four sides, in the order e1, e2, e3, e4.
BoundingBoxLineSegmentIntersections(box, seg) == SidesHit(BoxSides(box), seg, 1)

CellLineSegmentIntersections(ci, cj, seg) ==
  BoundingBoxLineSegmentIntersections(CellBoundingBox(ci, cj), seg)

HitPoints(hits) == [n \in 1..Len(hits) |-> hits[n].point]

\* The candidate points of InteriorLineSegment: the intersections with the
\* grid box, then a and b when the box contains them.
ClipCandidates(a, b) ==
  HitPoints(BoundingBoxLineSegmentIntersections(bbox_, <<a, b>>))
  \o (IF Contains(bbox_, a) THEN <<a>> ELSE <<>>)
  \o (IF Contains(bbox_, b) THEN <<b>> ELSE <<>>)

\* if (t < mint) { mint = t; minp = p; }
ClipMin(acc, p, t) ==
  IF RLt(t, acc.mint) THEN [acc EXCEPT !.mint = t, !.minp = p] ELSE acc
\* if (t > maxt) { maxt = t; maxp = p; }
ClipMax(acc, p, t) ==
  IF RLt(acc.maxt, t) THEN [acc EXCEPT !.maxt = t, !.maxp = p] ELSE acc

\* The loop over the candidates: acc = [mint, maxt, minp, maxp].
RECURSIVE ClipScan(_, _, _, _, _)
ClipScan(a, b, points, n, acc) ==
  IF n > Len(points) THEN acc
  ELSE ClipScan(a, b, points, n + 1,
                ClipMax(ClipMin(acc, points[n], Unlerp(a, b, points[n])),
                        points[n], Unlerp(a, b, points[n])))

NoInterior == [ok |-> FALSE, interior |-> <<>>]

\* if (mint < 1 && maxt > 0): minp and maxp are read only when both were
\* assigned.
ClipResult(acc) ==
  IF RLt(acc.mint, R(1)) /\ RLt(R(0), acc.maxt)
  THEN [ok |-> TRUE, interior |-> <<acc.minp, acc.maxp>>]
  ELSE NoInterior

\* InteriorLineSegment(segment, interior): [ok, interior].
InteriorLineSegment(seg) ==
  IF seg[1] = seg[2]
  THEN IF Contains(bbox_, seg[1]) THEN [ok |-> TRUE, interior |-> seg]
       ELSE NoInterior
  ELSE ClipResult(ClipScan(seg[1], seg[2], ClipCandidates(seg[1], seg[2]), 1,
                           [mint |-> R(1), maxt |-> R(0),
                            minp |-> seg[1], maxp |-> seg[1]]))

----------------------------------------------------------------------------
(* Bounds and inputs.                                                      *)

\* How many half cells beyond the grid box the end points of the inserted
\* segments reach.
Reach == 1
\* How many AddLineSegment calls a sequence of calls makes.
MaxCalls == 2

\* key_t is opaque to the index.
Keys == {"H", "P"}

Pt(xn, xd, yn, yd) == <<Rat(xn, xd), Rat(yn, yd)>>
BoxI(x0, y0, x1, y1) == Box(R(x0), R(y0), R(x1), R(y1))
Grid(box, cw, ch) == [bbox |-> box, cell_width |-> cw, cell_height |-> ch]

\* The grid of the scenarios: (0,0)-(10,10) in 1 x 1 cells.
ScenarioGrid == Grid(BoxI(0, 0, 10, 10), R(1), R(1))

\* Valid constructions: square, wider than tall, taller than wide, a box that
\* is no multiple of the cell (and not at the origin), a cell larger than the
\* box.
ValidGrids ==
  { ScenarioGrid,
    Grid(BoxI(0, 0, 2, 2), R(1), R(1)),
    Grid(BoxI(0, 0, 3, 2), R(1), R(1)),
    Grid(BoxI(0, 0, 2, 3), R(1), R(1)),
    Grid(Box(R(-1), R(-1), Half, Half), R(1), R(1)),
    Grid(BoxI(0, 0, 2, 2), R(5), R(5)) }

InvalidGrids ==
  { Grid(BoxI(0, 0, 2, 2), R(0), R(1)),
    Grid(BoxI(0, 0, 2, 2), R(1), R(-1)),
    Grid(BoxI(0, 0, 0, 2), R(1), R(1)),
    Grid(BoxI(0, 0, 2, 0), R(1), R(1)) }

Grids == ValidGrids \cup InvalidGrids

\* Constructor arguments for the claims about construction alone.
CtorExtents == {R(-1), R(0), R(1), R(2), Rat(5, 2), R(3)}
CtorCells == {R(-1), R(0), Half, R(1), R(5)}
CtorInputs ==
  { Grid(Box(x0, R(0), RAdd(x0, w), h), cw, ch) :
      x0 \in {R(-1), R(0)}, w \in CtorExtents, h \in CtorExtents,
      cw \in CtorCells, ch \in CtorCells }

\* The half-cell lattice over the grid box, Reach half cells beyond it.
LatticeX ==
  LET h == RMul(cell_width_, Half)
  IN  { RAdd(bbox_.minx, RMul(R(n), h)) :
          n \in (-Reach)..(RCeil(RDiv(Width(bbox_), h)) + Reach) }
LatticeY ==
  LET h == RMul(cell_height_, Half)
  IN  { RAdd(bbox_.miny, RMul(R(n), h)) :
          n \in (-Reach)..(RCeil(RDiv(Height(bbox_), h)) + Reach) }
Lattice == LatticeX \X LatticeY

\* The scenarios' segments and the horizontal segments around them.
ScenarioXs == {R(-5), Half, R(3), R(5), Rat(19, 2), R(10), R(15)}
ScenarioYs == {R(5), Rat(11, 2), R(10)}
ScenarioSegments ==
  { <<Pt(1, 10, 1, 10), Pt(99, 10, 99, 10)>>,
    <<Pt(-5, 1, -5, 1), Pt(-1, 1, -1, 1)>>,
    <<Pt(7, 2, 7, 2), Pt(7, 2, 7, 2)>>,
    <<Pt(12, 1, 12, 1), Pt(8, 1, 8, 1)>>,
    <<Pt(19, 2, 21, 2), Pt(21, 2, 19, 2)>> }
  \cup { << <<x0, y>>, <<x1, y>> >> : x0 \in ScenarioXs, x1 \in ScenarioXs, y \in ScenarioYs }

\* The segments inserted into a fresh index.
Segments ==
  IF args = ScenarioGrid THEN ScenarioSegments ELSE Lattice \X Lattice

\* The grids that sequences of calls run on: the small ones.
SeqGrids == ValidGrids \ {ScenarioGrid}

\* The segments of a sequence of calls: between the point below-left of the
\* box, the centre of the first cell and the centre of the last cell, and
\* from the centre of the top-left cell to the max-x side.
SeqPoints ==
  LET hx == RMul(cell_width_, Half)
      hy == RMul(cell_height_, Half)
  IN  { <<RSub(bbox_.minx, hx), RSub(bbox_.miny, hy)>>,
        <<RAdd(bbox_.minx, hx), RAdd(bbox_.miny, hy)>>,
        <<RSub(bbox_.maxx, hx), RSub(bbox_.maxy, hy)>> }
SeqSegments ==
  { s \in SeqPoints \X SeqPoints : s[1] # s[2] \/ Contains(bbox_, s[1]) }
  \cup { << <<RAdd(bbox_.minx, RMul(cell_width_, Half)), RSub(bbox_.maxy, RMul(cell_height_, Half))>>,
            <<bbox_.maxx, RSub(bbox_.maxy, RMul(cell_height_, Half))>> >> }

\* The rectangles queried: inside, overlapping and wholly outside the box.
QueryPoints ==
  LET hx == RMul(cell_width_, Half)
      hy == RMul(cell_height_, Half)
  IN  { <<RSub(bbox_.minx, cell_width_), RSub(bbox_.miny, cell_height_)>>,
        <<RAdd(bbox_.minx, hx), RAdd(bbox_.miny, hy)>>,
        <<RAdd(bbox_.minx, cell_width_), RAdd(bbox_.miny, hy)>>,
        <<RSub(bbox_.maxx, hx), RSub(bbox_.maxy, hy)>>,
        <<RAdd(bbox_.maxx, cell_width_), RAdd(bbox_.maxy, cell_height_)>> }
QueryRanges ==
  { Box(pq[1][1], pq[1][2], pq[2][1], pq[2][2]) :
      pq \in { c \in QueryPoints \X QueryPoints :
                 RLe(c[1][1], c[2][1]) /\ RLe(c[1][2], c[2][2]) } }

----------------------------------------------------------------------------
(* The state machine.                                                      *)

NoPoint == <<R(0), R(0)>>
NoBox == Box(R(0), R(0), R(0), R(0))
NoCoords == [p |-> NoPoint, ret |-> <<0, 0>>]
NoClip == [seg |-> <<NoPoint, NoPoint>>, first |-> NoInterior, second |-> NoInterior]

\* Before the constructor runs: its arguments are chosen, no index exists.
InitWith(inputs) ==
  /\ args \in inputs
  /\ pc = "new" /\ thrown = "none"
  /\ bbox_ = NoBox /\ cell_width_ = R(0) /\ cell_height_ = R(0)
  /\ num_rows_ = 0 /\ num_cols_ = 0 /\ items_ = <<>>
  /\ edgeid = "H" /\ segment = <<NoPoint, NoPoint>>
  /\ start = NoPoint /\ end = NoPoint /\ current_point = NoPoint
  /\ i = 0 /\ j = 0 /\ iters = 0 /\ appended = <<>> /\ moved = <<>>
  /\ calls = 0 /\ lastOp = "new"
  /\ range = NoBox /\ results = {}
  /\ coords = NoCoords /\ clip = NoClip

Init == InitWith(Grids)
InitCtor == InitWith(CtorInputs)
InitSeq == InitWith(Grids \cup CtorInputs)

walkLocals == <<start, end, current_point, i, j>>
geometry == <<bbox_, cell_width_, cell_height_, num_rows_, num_cols_>>
observers == <<range, results, coords, clip>>

\* cell_width_ = std::min(bbox_width, cell_width), and the same for the height.
EffectiveCell(extent, requested) == RMin(extent, requested)

\* The constructor's assignments, from bbox_ = bbox to items_.resize().
Build(box, cw, ch, nr, nc) ==
  /\ bbox_' = box
  /\ cell_width_' = cw
  /\ cell_height_' = ch
  /\ num_rows_' = nr
  /\ num_cols_' = nc
  /\ items_' = [n \in 1..(nc * nr) |-> <<>>]

BuildCells(box, cw, ch) == Build(box, cw, ch, CtorNumRows(box, cw), CtorNumCols(box, ch))

ConstructWith(e) ==
  IF e # "none"
  THEN /\ pc' = "failed"
       /\ thrown' = e
       /\ UNCHANGED <<geometry, items_>>
  ELSE /\ pc' = "idle"
       /\ thrown' = "none"
       /\ BuildCells(args.bbox, EffectiveCell(Width(args.bbox), args.cell_width),
                     EffectiveCell(Height(args.bbox), args.cell_height))

\* GridRangeQuery(bbox, cell_width, cell_height)
Construct ==
  /\ pc = "new"
  /\ lastOp' = "ctor"
  /\ ConstructWith(CtorThrows(args.bbox, args.cell_width, args.cell_height))
  /\ UNCHANGED <<args, edgeid, segment, walkLocals, iters, appended, moved,
                 calls, observers>>

\* What ItemsInCell(ci, cj).push_back(k) can do.  Inside the table the entry
\* grows by k ("ok").  An index outside the table is undefined behaviour: the
\* write lands outside the table and leaves it as it is ("stray"), or the
\* process dies ("crash").
PushBackOutcomes(ci, cj) ==
  IF InTable(CellIndex(ci, cj)) THEN {"ok"} ELSE {"stray", "crash"}

\* An assignment where the push_back should be.
PushBackOverwrites(tbl, idx, k) == [tbl EXCEPT ![idx + 1] = <<k>>]

PushBack(tbl, idx, k) == [tbl EXCEPT ![idx + 1] = Append(@, k)]

AfterPushBack(o, ci, cj, k) ==
  IF o = "ok" THEN PushBack(items_, CellIndex(ci, cj), k) ELSE items_

\* while (Unlerp(start, end, current_point) < 1.0)
WalkContinues(st, en, cur) == RLt(Unlerp(st, en, cur), R(1))

\* if (d < bestd)
Improves(d, bestd) == RLt(d, bestd)

\* if (d < bestd) { bestd = d; bestp = intersect; }
BestUpdate(acc, hit, d) ==
  IF Improves(d, acc.bestd) THEN [bestd |-> d, bestp |-> hit] ELSE acc

\* The loop over the intersections: acc = [bestd, bestp].
RECURSIVE BestScan(_, _, _, _, _, _)
BestScan(en, ci, cj, hits, n, acc) ==
  IF n > Len(hits) THEN acc
  ELSE BestScan(en, ci, cj, hits, n + 1,
                BestUpdate(acc, hits[n],
                           DistanceSquared(en, CellCenter(ci + hits[n].dx, cj + hits[n].dy))))

\* A walk that also moves on a tie: bestd <= the current cell's distance.
BestChoiceOrTies(acc, d0) == [move |-> RLe(acc.bestd, d0), bestp |-> acc.bestp]

\* if (bestd < end.DistanceSquared(CellCenter(i, j)))
BestChoice(acc, d0) == [move |-> RLt(acc.bestd, d0), bestp |-> acc.bestp]

BestFrom(cur, en, ci, cj, d0) ==
  BestChoice(BestScan(en, ci, cj, CellLineSegmentIntersections(ci, cj, <<cur, en>>), 1,
                      [bestd |-> d0, bestp |-> [point |-> cur, dx |-> 0, dy |-> 0]]),
             d0)

\* One iteration's choice: [move, bestp]; bestp is read only when move.
BestNeighbour(cur, en, ci, cj) ==
  BestFrom(cur, en, ci, cj, DistanceSquared(en, CellCenter(ci, cj)))

\* The first cell and the start = end special case.
AddClipped(k, st, en, g) ==
  /\ start' = st /\ end' = en /\ current_point' = st
  /\ i' = g[1] /\ j' = g[2]
  /\ IF st = en
     THEN \E o \in PushBackOutcomes(g[1], g[2]) :
            /\ items_' = AfterPushBack(o, g[1], g[2], k)
            /\ appended' = <<g>>
            /\ pc' = IF o = "crash" THEN "crashed" ELSE "idle"
     ELSE /\ pc' = "walk"
          /\ appended' = <<>>
          /\ UNCHANGED items_

\* if (!InteriorLineSegment(segment, interior)) return;
AddInterior(k, r) ==
  IF ~r.ok
  THEN /\ pc' = "idle"
       /\ appended' = <<>>
       /\ start' = NoPoint /\ end' = NoPoint /\ current_point' = NoPoint
       /\ i' = 0 /\ j' = 0
       /\ UNCHANGED items_
  ELSE AddClipped(k, r.interior[1], r.interior[2], GridCoordinates(r.interior[1]))

\* AddLineSegment(edgeid, segment), up to the walk's loop: the clip, the
\* first cell and the start = end special case.
AddLineSegment(k, s) ==
  /\ pc = "idle"
  /\ edgeid' = k /\ segment' = s
  /\ calls' = calls + 1
  /\ lastOp' = "add"
  /\ iters' = 0 /\ moved' = <<>>
  /\ range' = NoBox /\ results' = {} /\ coords' = NoCoords /\ clip' = NoClip
  /\ AddInterior(k, InteriorLineSegment(s))
  /\ UNCHANGED <<args, thrown, geometry>>

\* The end of one iteration: the move to the best neighbour, or the break.
WalkMove(b) ==
  IF b.move
  THEN /\ pc' = "walk"
       /\ current_point' = b.bestp.point
       /\ i' = i + b.bestp.dx
       /\ j' = j + b.bestp.dy
       /\ moved' = << <<i, j>>, <<i + b.bestp.dx, j + b.bestp.dy>> >>
       /\ UNCHANGED <<start, end>>
  ELSE /\ pc' = "idle"
       /\ UNCHANGED <<walkLocals, moved>>

\* One pass through the loop of AddLineSegment: the loop test, the
\* push_back, the choice of the next cell, the move or the break.
WalkStep ==
  /\ pc = "walk"
  /\ lastOp' = "step"
  /\ IF ~WalkContinues(start, end, current_point)
     THEN /\ pc' = "idle"
          /\ UNCHANGED <<items_, walkLocals, iters, appended, moved>>
     ELSE \E o \in PushBackOutcomes(i, j) :
            /\ items_' = AfterPushBack(o, i, j, edgeid)
            /\ appended' = Append(appended, <<i, j>>)
            /\ iters' = iters + 1
            /\ IF o = "crash"
               THEN /\ pc' = "crashed"
                    /\ UNCHANGED <<walkLocals, moved>>
               ELSE WalkMove(BestNeighbour(current_point, end, i, j))
  /\ UNCHANGED <<args, thrown, geometry, edgeid, segment, calls, observers>>

\* std::max(0, std::min(v, n - 1))
Clamp(v, n) == IF v < n - 1 THEN (IF 0 > v THEN 0 ELSE v) ELSE (IF 0 > n - 1 THEN 0 ELSE n - 1)

\* results.insert(items.begin(), items.end())
Elements(items) == { items[n] : n \in 1..Len(items) }

\* Loops that stop one column early: i < maxi.
QueryScanSkipsLast(mini, minj, maxi, maxj) ==
  UNION { Elements(ItemsInCell(c[1], c[2])) : c \in (mini..(maxi - 1)) \X (minj..maxj) }

\* The two loops of Query, for i in mini..maxi and j in minj..maxj, inserting
\* each cell's items into the result set.
QueryScan(mini, minj, maxi, maxj) ==
  UNION { Elements(ItemsInCell(c[1], c[2])) : c \in (mini..maxi) \X (minj..maxj) }

\* The clamped index rectangle swept by Query.
QueryCells(lo, hi) ==
  QueryScan(Clamp(lo[1], num_cols_), Clamp(lo[2], num_rows_),
            Clamp(hi[1], num_cols_), Clamp(hi[2], num_rows_))

\* Query(range): the set it returns.
Query(rng) ==
  QueryCells(GridCoordinates(<<rng.minx, rng.miny>>), GridCoordinates(<<rng.maxx, rng.maxy>>))

CallQuery(rng) ==
  /\ pc = "idle"
  /\ lastOp' = "query"
  /\ range' = rng
  /\ results' = Query(rng)
  /\ coords' = NoCoords /\ clip' = NoClip
  /\ UNCHANGED <<pc, args, thrown, geometry, items_, edgeid, segment, walkLocals,
                 iters, appended, moved, calls>>

CallGridCoordinates(p) ==
  /\ pc = "idle"
  /\ lastOp' = "coords"
  /\ coords' = [p |-> p, ret |-> GridCoordinates(p)]
  /\ range' = NoBox /\ results' = {} /\ clip' = NoClip
  /\ UNCHANGED <<pc, args, thrown, geometry, items_, edgeid, segment, walkLocals,
                 iters, appended, moved, calls>>

ClipAgain(s, first) ==
  [seg |-> s, first |-> first,
   second |-> IF first.ok THEN InteriorLineSegment(first.interior) ELSE NoInterior]

\* InteriorLineSegment on s and, when it reports an interior, on that
\* interior again.
CallInteriorLineSegment(s) ==
  /\ pc = "idle"
  /\ lastOp' = "clip"
  /\ clip' = ClipAgain(s, InteriorLineSegment(s))
  /\ range' = NoBox /\ results' = {} /\ coords' = NoCoords
  /\ UNCHANGED <<pc, args, thrown, geometry, items_, edgeid, segment, walkLocals,
                 iters, appended, moved, calls>>

\* Insertion into a fresh index, every segment of the lattice.
AddFresh == pc = "idle" /\ calls = 0 /\ \E k \in Keys : \E s \in Segments : AddLineSegment(k, s)
\* A sequence of insertions.
AddNext == pc = "idle" /\ args \in SeqGrids /\ calls < MaxCalls /\ \E k \in Keys : \E s \in SeqSegments : AddLineSegment(k, s)
DoQuery == pc = "idle" /\ args \in SeqGrids /\ \E rng \in QueryRanges : CallQuery(rng)
DoGridCoordinates == pc = "idle" /\ lastOp = "ctor" /\ \E p \in Lattice : CallGridCoordinates(p)
DoInteriorLineSegment == pc = "idle" /\ lastOp = "ctor" /\ \E s \in Segments : CallInteriorLineSegment(s)

Next == Construct \/ AddFresh \/ WalkStep
NextSeq == Construct \/ AddNext \/ WalkStep \/ DoQuery
NextPure == Construct \/ DoGridCoordinates \/ DoInteriorLineSegment
NextCtor == Construct

\* One insertion into a fresh index.
Spec == Init /\ [][Next]_vars
\* Every construction, and sequences of insertions and queries on the grids
\* of SeqGrids.
SpecSeq == InitSeq /\ [][NextSeq]_vars
\* The read-only helpers.
SpecPure == Init /\ [][NextPure]_vars
\* Construction alone.
SpecCtor == InitCtor /\ [][NextCtor]_vars

----------------------------------------------------------------------------
(* Geometry the claims are stated in, independent of the walk.             *)

\* The partitions along the x-axis and along the y-axis.
XParts == RCeil(RDiv(Width(bbox_), cell_width_))
YParts == RCeil(RDiv(Height(bbox_), cell_height_))

RMax(p, q) == IF RLt(p, q) THEN q ELSE p

\* The open interval of parameters t at which a + t * d lies strictly between
\* lo and hi, as <<from, to>>; <<1, 0>> when there is none and <<-1, 2>> when
\* every t of [0, 1] does.
OpenSpan(a, d, lo, hi) ==
  IF d[1] = 0 THEN (IF RLt(lo, a) /\ RLt(a, hi) THEN <<R(-1), R(2)>> ELSE <<R(1), R(0)>>)
  ELSE IF d[1] > 0 THEN <<RDiv(RSub(lo, a), d), RDiv(RSub(hi, a), d)>>
  ELSE <<RDiv(RSub(hi, a), d), RDiv(RSub(lo, a), d)>>

SpansMeet(sx, sy) ==
  /\ RLt(RMax(sx[1], sy[1]), RMin(sx[2], sy[2]))
  /\ RLt(RMax(sx[1], sy[1]), R(1))
  /\ RLt(R(0), RMin(sx[2], sy[2]))

\* Whether some point of the segment lies strictly inside the box.
CrossesInterior(box, seg) ==
  SpansMeet(OpenSpan(seg[1][1], RSub(seg[2][1], seg[1][1]), box.minx, box.maxx),
            OpenSpan(seg[1][2], RSub(seg[2][2], seg[1][2]), box.miny, box.maxy))

\* The part of cell (ci, cj) inside the grid box.
CellInGrid(ci, cj) ==
  Box(CellBoundingBox(ci, cj).minx, CellBoundingBox(ci, cj).miny,
      RMin(CellBoundingBox(ci, cj).maxx, bbox_.maxx),
      RMin(CellBoundingBox(ci, cj).maxy, bbox_.maxy))

\* AddLineSegment has returned to its caller.
Returned == pc = "idle" /\ lastOp \in {"add", "step"}

\* The keys the table holds for position (ci, cj); none outside the table.
KeysAt(ci, cj) ==
  IF InTable(CellIndex(ci, cj)) THEN Elements(ItemsInCell(ci, cj)) ELSE {}

----------------------------------------------------------------------------
(* The claims.                                                             *)

\* C1: every push_back of AddLineSegment targets a valid position (i, j):
\* 0 <= i < num_cols and 0 <= j < num_rows, in the walk and in the
\* start = end special case.
C1_AppendsTargetValidCells ==
  \A n \in 1..Len(appended) :
    /\ 0 <= appended[n][1] /\ appended[n][1] < num_cols_
    /\ 0 <= appended[n][2] /\ appended[n][2] < num_rows_

\* C2: insertion soundness: once AddLineSegment(k, s) has returned, k is in
\* ItemsInCell(i, j) of every cell whose interior the segment crosses inside
\* the grid box.
C2_InsertionSoundness ==
  Returned =>
    \A ci \in 0..(XParts - 1) : \A cj \in 0..(YParts - 1) :
      CrossesInterior(CellInGrid(ci, cj), segment) => edgeid \in KeysAt(ci, cj)

\* The member of 0..n-1 nearest to v.
Nearest(v, n) ==
  CHOOSE c \in 0..(n - 1) : \A c2 \in 0..(n - 1) : Abs(c - v) <= Abs(c2 - v)

\* The index rectangle of a query rectangle, clamped to the grid's indices.
ClampedCells(rng) ==
  (Nearest(GridCoordinates(<<rng.minx, rng.miny>>)[1], num_cols_)
     .. Nearest(GridCoordinates(<<rng.maxx, rng.maxy>>)[1], num_cols_))
  \X (Nearest(GridCoordinates(<<rng.minx, rng.miny>>)[2], num_rows_)
        .. Nearest(GridCoordinates(<<rng.maxx, rng.maxy>>)[2], num_rows_))

\* The keys stored anywhere in the table.
StoredKeys == UNION { Elements(items_[n]) : n \in 1..Len(items_) }

\* C3: Query(R) returns exactly the keys stored in the cells of the clamped
\* index rectangle of R: every key of those cells, and no key that occurs
\* only in cells outside it.
C3_QueryReturnsClampedRectangle ==
  lastOp = "query" =>
    results = UNION { Elements(ItemsInCell(c[1], c[2])) : c \in ClampedCells(range) }

\* A query reaching beyond the grid box that returns one stored key and
\* leaves another out.
C3_Witness ==
  /\ lastOp = "query"
  /\ RLt(bbox_.maxx, range.maxx)
  /\ results # {}
  /\ StoredKeys \ results # {}

\* C4: the walk ends within num_cols + num_rows + 1 iterations; every move
\* is to a 4-adjacent cell whose centre is strictly closer to the clipped
\* end point, and an iteration that does not move leaves the loop.
C4_WalkTerminatesMonotonically ==
  /\ iters <= num_cols_ + num_rows_ + 1
  /\ moved # <<>> =>
       /\ Abs(moved[2][1] - moved[1][1]) + Abs(moved[2][2] - moved[1][2]) = 1
       /\ RLt(DistanceSquared(end, CellCenter(moved[2][1], moved[2][2])),
              DistanceSquared(end, CellCenter(moved[1][1], moved[1][2])))
  /\ (pc = "walk" /\ iters > 0) =>
       /\ moved # <<>>
       /\ moved[2] = <<i, j>>
       /\ appended[Len(appended)] = moved[1]

\* A walk that has moved at least twice and has left its loop.
C4_Witness ==
  /\ Returned
  /\ iters >= 3
  /\ moved # <<>>

\* C5: num_cols counts the partitions along x and num_rows those along y:
\* num_cols * cell_width >= bbox.width and num_rows * cell_height >=
\* bbox.height.
C5_ColumnsCoverWidth ==
  pc = "idle" =>
    /\ RLe(Width(bbox_), RMul(R(num_cols_), cell_width_))
    /\ RLe(Height(bbox_), RMul(R(num_rows_), cell_height_))

\* The positions AddLineSegment appended its key to.
RecordedCells == { appended[n] : n \in 1..Len(appended) }

\* The cells (i, floor(y)) from the column of the clipped start to the
\* column of the clipped end.
HorizontalCells ==
  { <<ci, RFloor(RDiv(RSub(start[2], bbox_.miny), cell_height_))>> :
      ci \in RFloor(RDiv(RSub(start[1], bbox_.minx), cell_width_))
               .. RFloor(RDiv(RSub(end[1], bbox_.minx), cell_width_)) }

\* C6: in the scenario grid a horizontal segment whose clipped interior runs
\* from (x0, y) to (x1, y), x0 < x1, is recorded in exactly the cells
\* (i, floor(y)) from the column of the clipped start to the column of the
\* clipped end.
C6_HorizontalSegmentCells ==
  ( /\ args = ScenarioGrid
    /\ Returned
    /\ InteriorLineSegment(segment).ok
    /\ start[2] = end[2]
    /\ RLt(start[1], end[1]) )
  => RecordedCells = HorizontalCells

\* C7: GridCoordinates(p) is (floor((p.x - minx) / cell_width),
\* floor((p.y - miny) / cell_height)) for every point, also left of and
\* below the grid box.
C7_GridCoordinatesIsFloor ==
  lastOp = "coords" =>
    coords.ret = << RFloor(RDiv(RSub(coords.p[1], bbox_.minx), cell_width_)),
                    RFloor(RDiv(RSub(coords.p[2], bbox_.miny), cell_height_)) >>

\* C8: clipping idempotence: when InteriorLineSegment reports an interior c
\* for a segment, it reports the same interior for c.
C8_ClipIdempotent ==
  (lastOp = "clip" /\ clip.first.ok) =>
    /\ clip.second.ok
    /\ clip.second.interior = clip.first.interior

NonPositive(r) == r[1] <= 0

\* C9: the constructor throws exactly when a cell size or a box extent is
\* non-positive, and then builds no index; otherwise the cell sizes are the
\* requested ones capped by the box extents, and the table has num_rows *
\* num_cols cells, all empty.  No other operation fails: none throws and
\* none dies.
C9_ConstructorFailsExactlyOnNonPositive ==
  /\ pc # "crashed"
  /\ pc # "new" =>
       ( pc = "failed" <=>
           \/ NonPositive(args.cell_width) \/ NonPositive(args.cell_height)
           \/ NonPositive(RSub(args.bbox.maxx, args.bbox.minx))
           \/ NonPositive(RSub(args.bbox.maxy, args.bbox.miny)) )
  /\ (thrown # "none") <=> (pc = "failed")
  /\ pc = "failed" => (items_ = <<>> /\ num_rows_ = 0 /\ num_cols_ = 0)
  /\ pc \in {"idle", "walk", "crashed"} =>
       /\ bbox_ = args.bbox
       /\ cell_width_ = (IF RLt(args.cell_width, RSub(args.bbox.maxx, args.bbox.minx))
                         THEN args.cell_width ELSE RSub(args.bbox.maxx, args.bbox.minx))
       /\ cell_height_ = (IF RLt(args.cell_height, RSub(args.bbox.maxy, args.bbox.miny))
                          THEN args.cell_height ELSE RSub(args.bbox.maxy, args.bbox.miny))
       /\ Len(items_) = num_rows_ * num_cols_
       /\ (lastOp = "ctor" => \A n \in 1..Len(items_) : items_[n] = <<>>)

IsPrefix(u, v) == Len(u) <= Len(v) /\ \A n \in 1..Len(u) : u[n] = v[n]

\* What one step may do to the index once it is built.
C10_Step ==
  pc # "new" =>
    /\ UNCHANGED geometry
    /\ Len(items_') = Len(items_)
    /\ \A n \in 1..Len(items_) :
         /\ IsPrefix(items_[n], items_'[n])
         /\ \A m \in (Len(items_[n]) + 1)..Len(items_'[n]) : items_'[n][m] = edgeid'
    /\ lastOp' = "query" => UNCHANGED <<items_, pc, edgeid, segment, walkLocals>>
    /\ (lastOp' = "add" /\ ~InteriorLineSegment(segment').ok) => UNCHANGED items_

\* C10: the per-cell sequences are append-only: every step leaves each
\* cell's sequence a prefix of the new one, what is appended is the key of
\* the call, an empty clip changes no cell, the geometry never changes after
\* construction, and Query changes nothing.
C10_AppendOnly == [][C10_Step]_vars

\* A cell holding the same key twice after a repeated insert.
C10_Witness ==
  /\ calls = 2
  /\ Returned
  /\ \E n \in 1..Len(items_) :
       Len(items_[n]) >= 2 /\ items_[n][1] = items_[n][2]

====
